---- MODULE Spec2Model ----
(***************************************************************************)
(* Image search service (image-search-engine/app.py).                      *)
(*                                                                         *)
(* Three endpoints take an uploaded image, store it under                  *)
(* IMAGEDIR + timestamp + filename, extract an embedding and search an     *)
(* index:                                                                  *)
(*   /search-image         local extraction,  Qdrant search (awaited)      *)
(*   /search-image-triton  Triton extraction (awaited), Qdrant search      *)
(*   /search-image-faiss   local extraction,  Faiss search (in process)    *)
(* Handlers are coroutines of one event loop: the code between two awaits  *)
(* runs without interleaving, so every action below is the code from one   *)
(* await to the next.                                                      *)
(***************************************************************************)
EXTENDS Integers, Sequences, FiniteSets, TLC

----------------------------------------------------------------------------
(* Bounds of the model *)

NumReqs == 2

MaxClock == 1

MaxIndex == 21

(* Program constant: the literal top_k passed by all three handlers *)
TopK == 20

Reqs == 1..NumReqs

Endpoints == {"qdrant", "triton", "faiss"}

FileNames == {"a.jpg"}

(* Uploaded byte contents: 0 is an empty / undecodable upload *)
Uploads == {0, 1, 2}

NoBytes == -1

NoFeature == -1

(* Catalogs the service may have loaded, <<size, ids without metadata>>:  *)
(* a small one with a stale entry,                                         *)
Catalogs == {<<3, {2}>>}

(* and also an empty one and one larger than top_k *)
LargeCatalogs == Catalogs \cup {<<0, {}>>, <<MaxIndex, {}>>}

Paths == (0..MaxClock) \X FileNames

Min(a, b) == IF a <= b THEN a ELSE b

----------------------------------------------------------------------------
(* Exceptions *)

Exc(t, phrase) == [type |-> t, reason_phrase |-> phrase]

NoExc == Exc("none", "")

InputError == Exc("InputError", "")

BackendUnavailableError == Exc("BackendUnavailableError", "")

OSError == Exc("OSError", "")

MappingError == Exc("MappingError", "")

(* qdrant_client.http.exceptions.UnexpectedResponse carries the HTTP      *)
(* reason phrase of the Qdrant reply                                       *)
UnexpectedResponses == {Exc("UnexpectedResponse", "Not Found")}

(* Exception types that belong to the remote transport *)
TransportTypes == {"UnexpectedResponse"}

(* What an awaited qdrant_search.search may raise *)
QdrantSearchErrors ==
  UnexpectedResponses \cup {BackendUnavailableError}

(* What an awaited triton_extract_feature may raise besides InputError *)
TritonErrors == {BackendUnavailableError}

----------------------------------------------------------------------------
(* Responses *)

NoResponse == [kind |-> "none", status |-> 0, detail |-> "", body |-> <<>>,
               caught |-> FALSE]

Ok(body) == [kind |-> "ok", status |-> 200, detail |-> "", body |-> body,
             caught |-> FALSE]

(* An exception that leaves the handler: the framework answers 500 *)
Unhandled(e) == [kind |-> "fail", status |-> 500,
                 detail |-> "Internal Server Error", body |-> <<>>,
                 caught |-> FALSE]

(* except UnexpectedResponse as e: raise HTTPException(500, e.reason_phrase) *)
QdrantExcept(e) ==
  IF e.type = "UnexpectedResponse"
  THEN [kind |-> "fail", status |-> 500, detail |-> e.reason_phrase,
        body |-> <<>>, caught |-> TRUE]
  ELSE Unhandled(e)

(* search_image_triton has no try block *)
TritonExcept(e) == Unhandled(e)

(* except Exception as e: raise HTTPException(500, detail=e) *)
FaissExcept(e) ==
  [kind |-> "fail", status |-> 500, detail |-> e.type, body |-> <<>>,
   caught |-> TRUE]

Handle(ep, e) ==
  CASE ep = "qdrant" -> QdrantExcept(e)
    [] ep = "triton" -> TritonExcept(e)
    [] ep = "faiss"  -> FaissExcept(e)

----------------------------------------------------------------------------
(* Embedding, catalog and index *)

(* extract: a deterministic function of the image bytes and the model *)
Embed(bytes) == (bytes - 1) * 4

Decodable(bytes) == bytes >= 1

Entry(i) == [id |-> i, vec |-> (i * 3) % 5, payload |-> "item"]

(* the catalog of n entries; the entries in stale have lost their metadata *)
Catalog(n, stale) ==
  [i \in 1..n |-> IF i \in stale THEN [Entry(i) EXCEPT !.payload = ""]
                                 ELSE Entry(i)]

Dist(a, b) == (a - b) * (a - b)

(* an index entry as a search hit for query q *)
Hit(e, q) == [id |-> e.id, score |-> Dist(e.vec, q), payload |-> e.payload]

(* h placed after every hit that is at least as near as it is *)
RECURSIVE Insert(_, _)
Insert(h, s) ==
  IF s = <<>> THEN <<h>>
  ELSE IF h.score < Head(s).score THEN <<h>> \o s
  ELSE <<Head(s)>> \o Insert(h, Tail(s))

(* the first n entries of idx ranked for query q: by distance, ties by     *)
(* position in the index                                                   *)
RECURSIVE Ranked(_, _, _)
Ranked(idx, q, n) ==
  IF n = 0 THEN <<>> ELSE Insert(Hit(idx[n], q), Ranked(idx, q, n - 1))

(* query: the min(top_k, size) nearest entries, best first *)
Query(idx, q, k) ==
  LET s == Ranked(idx, q, Len(idx)) IN SubSeq(s, 1, Min(k, Len(s)))

----------------------------------------------------------------------------
(* Result mapping *)

IsStale(point) == point.payload = ""

(* Product.from_point(point) *)
FromPoint(point) ==
  [id |-> point.id, item_name |-> point.payload, score |-> point.score]

(* what from_point does with a point that has no metadata: it raises, or   *)
(* it builds a record with blank fields                                    *)
StaleOutcomes == {"raise", "blank"}

(* the comprehension, iterating from the last hit *)
MapPointsReversed(hits) ==
  [i \in 1..Len(hits) |-> FromPoint(hits[Len(hits) + 1 - i])]

(* the comprehension, stopping one hit early *)
MapPointsShort(hits) ==
  [i \in 1..(IF Len(hits) = 0 THEN 0 ELSE Len(hits) - 1) |->
     FromPoint(hits[i])]

(* [Product.from_point(point) for point in search_results.result] *)
MapPoints(hits) == [i \in 1..Len(hits) |-> FromPoint(hits[i])]

HasStale(hits) == \E i \in 1..Len(hits) : IsStale(hits[i])

(* faiss_search.search returns the product records themselves *)
FaissSearch(idx, q, k) == MapPoints(Query(idx, q, k))

----------------------------------------------------------------------------
(* State *)

VARIABLES
  now,               \* datetime.now(), in seconds
  imagedir,          \* whether settings.IMAGEDIR can be written
  disk,              \* the uploaded-image store: path -> bytes
  feature_extractor, \* module-level FeatureExtractor()
  faiss_search,      \* module-level FaissSearch(): the loaded index
  qdrant_search,     \* module-level QdrantSearch(): the remote collection
  req                \* one handler invocation per request

vars == <<now, imagedir, disk, feature_extractor, faiss_search, qdrant_search, req>>

shared == <<feature_extractor, faiss_search, qdrant_search>>

NoPath == <<0, "">>

IdleReq ==
  [pc |-> "idle", endpoint |-> "qdrant", filename |-> "", upload |-> NoBytes,
   image_path |-> NoPath, contents |-> NoBytes, readOf |-> NoBytes,
   feature |-> NoFeature, hits |-> <<>>, stage |-> "none", exc |-> NoExc,
   response |-> NoResponse, searchCalls |-> 0, sent |-> 0]

Init ==
  /\ now = 0
  /\ imagedir \in BOOLEAN
  /\ disk = [p \in Paths |-> NoBytes]
  /\ feature_extractor = [model |-> "efficientnet_b3"]
  /\ \E c \in Catalogs :
       /\ faiss_search = Catalog(c[1], {})
       /\ qdrant_search = Catalog(c[1], c[2])
  /\ req = [r \in Reqs |-> IdleReq]

----------------------------------------------------------------------------
(* Steps of a handler *)

(* image_path = settings.IMAGEDIR + strftime("%Y%m%d-%H%M%S-") + filename *)
ImagePath(t, name) == <<t, name>>

(* the handler's frame is left: file, image_path and contents are gone *)
Leave(q) ==
  [q EXCEPT !.pc = "done", !.filename = "", !.image_path = NoPath,
            !.contents = NoBytes]

(* an exception raised at a stage ends the request with the handler's      *)
(* answer to it                                                            *)
Fail(q, stage, e) ==
  [Leave(q) EXCEPT !.stage = stage, !.exc = e,
                   !.response = Handle(q.endpoint, e), !.sent = @ + 1]

(* return result *)
Return(q, body) ==
  [Leave(q) EXCEPT !.response = Ok(body), !.sent = @ + 1]

(* image_path and contents are not used again once the extractor has read *)
(* the file                                                                *)
Extracted(q) == [q EXCEPT !.image_path = NoPath, !.contents = NoBytes]

(* await qdrant_search.search(query_vector=feature, top_k=20) is entered *)
CallSearch(q, feature) ==
  [Extracted(q) EXCEPT !.pc = "search", !.feature = feature,
                       !.searchCalls = @ + 1]

(* the extraction error is swallowed and the search runs on a zero vector *)
ExtractFailedContinue(q, e) ==
  CallSearch([q EXCEPT !.stage = "extract", !.exc = e], 0)

(* extraction raised: nothing after it in the handler runs *)
ExtractFailed(q, e) == Fail(q, "extract", e)

(* the search is awaited again after it raised *)
SearchFailedRetry(q, e) ==
  [q EXCEPT !.stage = "search", !.exc = e, !.searchCalls = @ + 1]

(* qdrant_search.search raised *)
SearchFailed(q, e) == Fail(q, "search", e)

(* the extractor opens image_path before the handler has written it *)
ImageReadEarly(before, after, path) == before[path]

(* the extractor opens image_path after the handler has written it *)
ImageRead(before, after, path) == after[path]

(* the records built before from_point raised *)
MappedPrefix(hits) ==
  LET first == CHOOSE i \in 1..Len(hits) :
                 IsStale(hits[i]) /\ \A j \in 1..(i - 1) : ~IsStale(hits[j])
  IN MapPoints(SubSeq(hits, 1, first - 1))

(* the records built so far are returned when from_point raises *)
MapAndReturnPartial(q, hits, so) ==
  IF HasStale(hits) /\ so = "raise"
  THEN Return([q EXCEPT !.hits = hits], MappedPrefix(hits))
  ELSE Return([q EXCEPT !.hits = hits], MapPoints(hits))

(* the list comprehension over search_results.result, then return *)
MapAndReturn(q, hits, so) ==
  IF HasStale(hits) /\ so = "raise"
  THEN Fail([q EXCEPT !.hits = hits], "map", MappingError)
  ELSE Return([q EXCEPT !.hits = hits], MapPoints(hits))

----------------------------------------------------------------------------
(* Actions *)

(* a request arrives: the handler runs up to  await file.read() *)
Receive(r) ==
  /\ req[r].pc = "idle"
  /\ \E ep \in Endpoints, name \in FileNames, bytes \in Uploads :
       req' = [req EXCEPT ![r] =
                 [@ EXCEPT !.pc = "read", !.endpoint = ep, !.filename = name,
                           !.upload = bytes,
                           !.image_path = ImagePath(now, name)]]
  /\ UNCHANGED <<now, imagedir, disk, shared>>

(* search_image_qdrant from the return of file.read() to the await of the  *)
(* Qdrant search                                                           *)
QdrantPersistExtract(r) ==
  LET q == [req[r] EXCEPT !.contents = req[r].upload] IN
  /\ req[r].pc = "read"
  /\ req[r].endpoint = "qdrant"
  /\ IF ~imagedir
     THEN /\ disk' = disk
          /\ req' = [req EXCEPT ![r] = Fail(q, "persist", OSError)]
     ELSE LET d == [disk EXCEPT ![q.image_path] = q.contents]
              bytes == ImageRead(disk, d, q.image_path)
              qq == [q EXCEPT !.readOf = bytes]
          IN /\ disk' = d
             /\ req' = [req EXCEPT ![r] =
                          IF Decodable(bytes)
                          THEN CallSearch(qq, Embed(bytes))
                          ELSE ExtractFailed(qq, InputError)]
  /\ UNCHANGED <<now, imagedir, shared>>

(* search_image_triton from the return of file.read() to the await of the  *)
(* Triton inference: the adapter reads and serialises the image, then      *)
(* awaits the server                                                       *)
TritonPersistSend(r) ==
  LET q == [req[r] EXCEPT !.contents = req[r].upload] IN
  /\ req[r].pc = "read"
  /\ req[r].endpoint = "triton"
  /\ IF ~imagedir
     THEN /\ disk' = disk
          /\ req' = [req EXCEPT ![r] = Fail(q, "persist", OSError)]
     ELSE LET d == [disk EXCEPT ![q.image_path] = q.contents]
              bytes == ImageRead(disk, d, q.image_path)
              qq == [q EXCEPT !.readOf = bytes]
          IN /\ disk' = d
             /\ req' = [req EXCEPT ![r] =
                          IF Decodable(bytes)
                          THEN [Extracted(qq) EXCEPT !.pc = "extract"]
                          ELSE ExtractFailed(qq, InputError)]
  /\ UNCHANGED <<now, imagedir, shared>>

(* the Triton inference returns or raises *)
TritonExtractDone(r) ==
  /\ req[r].pc = "extract"
  /\ \/ req' = [req EXCEPT ![r] = CallSearch(@, Embed(@.readOf))]
     \/ \E e \in TritonErrors :
          req' = [req EXCEPT ![r] = ExtractFailed(@, e)]
  /\ UNCHANGED <<now, imagedir, disk, shared>>

(* the Qdrant search returns or raises; on return the hits are mapped and  *)
(* the handler returns                                                     *)
QdrantSearchDone(r) ==
  /\ req[r].pc = "search"
  /\ \/ \E so \in StaleOutcomes :
          req' = [req EXCEPT ![r] =
                    MapAndReturn(@, Query(qdrant_search, @.feature, TopK), so)]
     \/ \E e \in QdrantSearchErrors :
          req' = [req EXCEPT ![r] = SearchFailed(@, e)]
  /\ UNCHANGED <<now, imagedir, disk, shared>>

(* upload_image from the return of file.read() to the end: extraction and  *)
(* the Faiss search are both in process                                    *)
FaissPersistExtractSearch(r) ==
  LET q == [req[r] EXCEPT !.contents = req[r].upload] IN
  /\ req[r].pc = "read"
  /\ req[r].endpoint = "faiss"
  /\ IF ~imagedir
     THEN /\ disk' = disk
          /\ req' = [req EXCEPT ![r] = Fail(q, "persist", OSError)]
     ELSE LET d == [disk EXCEPT ![q.image_path] = q.contents]
              bytes == ImageRead(disk, d, q.image_path)
              qq == [q EXCEPT !.readOf = bytes]
              results == FaissSearch(faiss_search, Embed(bytes), TopK)
          IN /\ disk' = d
             /\ req' = [req EXCEPT ![r] =
                          IF Decodable(bytes)
                          THEN Return([qq EXCEPT !.feature = Embed(bytes),
                                                 !.hits = results,
                                                 !.searchCalls = @ + 1],
                                      results)
                          ELSE ExtractFailed(qq, InputError)]
  /\ UNCHANGED <<now, imagedir, shared>>

(* a second passes *)
Tick ==
  /\ now < MaxClock
  /\ now' = now + 1
  /\ UNCHANGED <<imagedir, disk, shared, req>>

Next ==
  \/ \E r \in Reqs : Receive(r)
  \/ \E r \in Reqs : QdrantPersistExtract(r)
  \/ \E r \in Reqs : TritonPersistSend(r)
  \/ \E r \in Reqs : TritonExtractDone(r)
  \/ \E r \in Reqs : QdrantSearchDone(r)
  \/ \E r \in Reqs : FaissPersistExtractSearch(r)
  \/ Tick

Spec == Init /\ [][Next]_vars

(* One client, and possibly a catalog larger than top_k *)
InitSolo ==
  /\ now = 0
  /\ imagedir \in BOOLEAN
  /\ disk = [p \in Paths |-> NoBytes]
  /\ feature_extractor = [model |-> "efficientnet_b3"]
  /\ \E c \in LargeCatalogs :
       /\ faiss_search = Catalog(c[1], {})
       /\ qdrant_search = Catalog(c[1], c[2])
  /\ req = [r \in Reqs |-> IF r = 1 THEN IdleReq
                                    ELSE [IdleReq EXCEPT !.pc = "off"]]

SpecSolo == InitSolo /\ [][Next]_vars

----------------------------------------------------------------------------
(* Properties *)

Done(r) == req[r].pc = "done"

Succeeded(r) == Done(r) /\ req[r].response.kind = "ok"

Failed(r) == Done(r) /\ req[r].response.kind = "fail"

Mapped(r) == req[r].endpoint \in {"qdrant", "triton"}

(* the index the endpoint of r searches *)
IndexOf(r) == IF req[r].endpoint = "faiss" THEN faiss_search ELSE qdrant_search

(* C1: on every endpoint, a request whose extraction step failed has       *)
(* invoked no index backend and has ended in a failure.                    *)
C1_ExtractionFailureSkipsSearch ==
  \A r \in Reqs :
    req[r].stage = "extract" =>
      /\ req[r].searchCalls = 0
      /\ req[r].hits = <<>>
      /\ Failed(r)

C1_Witness ==
  /\ \E r \in Reqs : req[r].stage = "extract" /\ req[r].exc = InputError
                      /\ req[r].endpoint = "faiss" /\ Failed(r)
  /\ \E r \in Reqs : req[r].stage = "extract" /\ req[r].endpoint = "triton"
                      /\ req[r].exc = BackendUnavailableError /\ Failed(r)

(* C3: in every successful search the record at position i is the mapping  *)
(* of the backend's hit at position i: same length, same order, nothing    *)
(* removed.                                                                *)
C3_OrderPreserved ==
  \A r \in Reqs :
    Succeeded(r) =>
      /\ Len(req[r].response.body) = Len(req[r].hits)
      /\ \A i \in 1..Len(req[r].hits) :
           req[r].response.body[i] =
             IF Mapped(r) THEN FromPoint(req[r].hits[i]) ELSE req[r].hits[i]

C3_Witness ==
  \E r \in Reqs :
    /\ Succeeded(r) /\ Mapped(r)
    /\ Len(req[r].response.body) = 3
    /\ req[r].response.body[1].id = 3
    /\ req[r].response.body[2].id = 1
    /\ req[r].response.body[3].id = 2

(* C4: a request that has not returned has sent nothing; a request that    *)
(* has returned has sent exactly one response, which is either the         *)
(* complete list (one record per hit) or a failure with a status code and  *)
(* no records.                                                             *)
C4_CompleteOrFailure ==
  \A r \in Reqs :
    /\ ~Done(r) => req[r].sent = 0 /\ req[r].response = NoResponse
    /\ Done(r) =>
         /\ req[r].sent = 1
         /\ \/ /\ req[r].response.kind = "ok"
               /\ req[r].exc = NoExc
               /\ Len(req[r].response.body) = Len(req[r].hits)
            \/ /\ req[r].response.kind = "fail"
               /\ req[r].exc # NoExc
               /\ req[r].response.status = 500
               /\ req[r].response.body = <<>>

(* the mapping of the third hit raised after two records were built *)
C4_Witness ==
  \E r \in Reqs :
    /\ Failed(r) /\ req[r].stage = "map"
    /\ Len(req[r].hits) = 3 /\ IsStale(req[r].hits[3])
    /\ req[r].response.body = <<>>

(* C5 (as claimed): no exception type of the remote transport reaches the  *)
(* endpoint handlers, and none is caught there.                            *)
C5_NoTransportErrorInHandler ==
  \A r \in Reqs :
    /\ req[r].exc.type \notin TransportTypes
    /\ ~(req[r].response.caught /\ req[r].exc.type \in TransportTypes)

(* C6 (as claimed): on each endpoint an InputError of the extraction and a *)
(* BackendUnavailableError of the index query are caught by the handler,   *)
(* and the two failures differ in what the caller receives.                *)
C6_FailuresRecoveredAndDistinct ==
  /\ \A r \in Reqs :
       Done(r) /\ req[r].exc \in {InputError, BackendUnavailableError}
         => req[r].response.caught
  /\ \A r1, r2 \in Reqs :
       /\ Done(r1) /\ Done(r2) /\ req[r1].endpoint = req[r2].endpoint
       /\ req[r1].stage = "extract" /\ req[r1].exc = InputError
       /\ req[r2].stage = "search" /\ req[r2].exc = BackendUnavailableError
       => \/ req[r1].response.status # req[r2].response.status
          \/ req[r1].response.detail # req[r2].response.detail

(* C7: within one request the index backend is invoked at most once and at *)
(* most one response is sent; a failed query ends the request with one     *)
(* failure.                                                                *)
C7_NoRetry ==
  \A r \in Reqs :
    /\ req[r].searchCalls <= 1
    /\ req[r].sent <= 1
    /\ req[r].stage = "search" =>
         Failed(r) /\ req[r].sent = 1 /\ req[r].searchCalls = 1

C7_Witness ==
  \E r \in Reqs :
    /\ req[r].stage = "search" /\ req[r].exc = BackendUnavailableError
    /\ Failed(r) /\ req[r].searchCalls = 1

NotStale(point) == ~IsStale(point)

(* C8 (as claimed): when the hits of a search contain one without catalog  *)
(* metadata, the request succeeds and returns the mapping of the other     *)
(* hits, in order.                                                         *)
C8_StaleHitsOmitted ==
  \A r \in Reqs :
    Done(r) /\ Mapped(r) /\ HasStale(req[r].hits) =>
      /\ req[r].response.kind = "ok"
      /\ req[r].response.body = MapPoints(SelectSeq(req[r].hits, NotStale))

C9_WitnessEmpty ==
  /\ Len(faiss_search) = 0
  /\ \E r \in Reqs : Succeeded(r) /\ req[r].response.body = <<>>

(* what a request that uploaded bytes must be answered on its endpoint *)
OwnHits(r) == Query(IndexOf(r), Embed(req[r].upload), TopK)

OwnImage ==
  \A r \in Reqs :
    /\ req[r].readOf \in {NoBytes, req[r].upload}
    /\ req[r].feature \in {NoFeature, Embed(req[r].upload)}
    /\ Succeeded(r) => req[r].response.body = MapPoints(OwnHits(r))

(* C10: under every interleaving at the awaits, the extractor of a request *)
(* reads the bytes that request uploaded, its feature and its results are  *)
(* those of its own upload, also when another request shares its image     *)
(* path, and no step writes the extractor, the Faiss index or the Qdrant   *)
(* client.                                                                 *)
C10_RequestIsolation == []OwnImage /\ [][UNCHANGED shared]_vars

(* two requests in flight with the same file name within second 0, hence  *)
(* on one image path, with different uploads and both past their           *)
(* extraction: the file now holds the bytes of one of them only            *)
C10_Witness ==
  \E r1, r2 \in Reqs :
    /\ r1 # r2
    /\ now = 0
    /\ req[r1].pc = "search" /\ req[r2].pc \in {"extract", "search"}
    /\ req[r1].filename = req[r2].filename
    /\ Decodable(req[r1].upload) /\ Decodable(req[r2].upload)
    /\ req[r1].upload # req[r2].upload
    /\ disk[ImagePath(0, req[r1].filename)] = req[r2].upload
    /\ req[r1].readOf = req[r1].upload /\ req[r2].readOf = req[r2].upload

====
